---- MODULE Spec2Model ----
(***************************************************************************)
(* A model of r2/r2/lib/voting.py: vote submission (cast_vote), the link   *)
(* and comment vote commit consumers, the fan-out onto the author,         *)
(* subreddit and domain query queues, and the consumers of those queues.   *)
(*                                                                         *)
(* Strings are sequences of tokens, so that a formatted name (a lock key,  *)
(* a queue name, a fullname) is built the way the code's "%" formatting    *)
(* builds it.  Collaborators whose code lives outside voting.py (the Vote  *)
(* model, the lock service, the queue transport, the cached queries, the   *)
(* URL parser) are modelled from their documented contract.                *)
(***************************************************************************)
EXTENDS Integers, Sequences, FiniteSets, TLC

VARIABLES
    voteQ,        \* vote queue name -> set of messages waiting for delivery
    acked,        \* messages acknowledged to the broker at least once
    redelivered,  \* number of redeliveries of acknowledged messages so far
    pc,           \* consumer process -> position in process_message
    cur,          \* consumer process -> message being processed (or NoMsg)
    vote,         \* consumer process -> the Vote object it built (or NoVote)
    result,       \* consumer process -> how its process_message ended
    votes,        \* <<user id, thing fullname>> -> committed direction
    liked,        \* user id -> set of fullnames in get_liked(user)
    disliked,     \* user id -> set of fullnames in get_disliked(user)
    locks,        \* set of [key, owner] records: locks of g.make_lock held
    fanQ,         \* fan-out queue name -> sequence of link fullnames
    shardCfg,     \* g.shard_{author,subreddit,domain}_query_queues
    listing,      \* [dim, key, sort] -> sequence of fullnames in the cached query
    handled,      \* dimension -> link fullname -> messages of it processed
    batch,        \* the batch of a listing consumer whose processing raised last
    commentsQ,    \* sequence of comment fullnames on the comments-tree queue
    req,          \* request id -> state of one cast_vote call
    gencache,     \* prequeued vote key -> serialized direction (or NoEntry)
    lastModified, \* set of <<user fullname, name>> touched in LastModified
    clock,        \* the wall clock read by cast_vote
    liveConfig    \* g.live_config: comment_vote_update_threshold and _period

vars == <<voteQ, acked, redelivered, pc, cur, vote, result, votes, liked,
          disliked, locks, fanQ, shardCfg, listing, handled, batch, commentsQ,
          req,
          gencache, lastModified, clock, liveConfig>>

consumerVars == <<voteQ, acked, redelivered, pc, cur, vote, result, votes,
                  liked, disliked, locks, fanQ, commentsQ>>

submitVars == <<req, gencache, lastModified, clock>>

configVars == <<shardCfg, liveConfig>>

-----------------------------------------------------------------------------
(* Bounds of the model *)

\* messages on the vote queues when the consumers start
MaxMsgs == 2

\* redeliveries of already acknowledged messages (at-least-once delivery)
MaxRedeliver == 1

\* fan-outs of eligible votes waiting when the listing consumers start
MaxFanout == 3

\* calls of cast_vote
MaxRequests == 2

\* fan-outs waiting when listing consumers whose updates can fail start
MaxFaultFanout == 2

-----------------------------------------------------------------------------
(* Program constants *)

\* the "% 10" of add_to_author_query_q, add_to_subreddit_query_q and
\* add_to_domain_query_q
ShardCount == 10

SORTS == <<"hot", "top", "controversial">>

\* the limit=1000 of the consume_*_query_queue functions
BatchLimit == 1000

Directions == {"up", "down", "none"}

-----------------------------------------------------------------------------
(* Accounts, links and comments: the records the consumers resolve ids to *)

Users == {1, 2}

LinkIds == {1, 2, 3, 4, 5}

CommentIds == {1}

Digits36 ==
    <<"0", "1", "2", "3", "4", "5", "6", "7", "8", "9", "a", "b", "c", "d", "e",
      "f", "g", "h", "i", "j", "k", "l", "m", "n", "o", "p", "q", "r", "s", "t",
      "u", "v", "w", "x", "y", "z">>

\* the digits of n in the given base, most significant first
RECURSIVE ToBase(_, _)
ToBase(n, base) ==
    IF n < base THEN <<Digits36[n + 1]>>
    ELSE ToBase(n \div base, base) \o <<Digits36[(n % base) + 1]>>

\* Thing._id36: the id in base 36
Id36(n) == ToBase(n, 36)

\* "%s" % n for an integer n
Decimal(n) == ToBase(n, 10)

\* Thing._fullname: the type prefix, "_", the id in base 36
LinkFullname(id) == <<"t3", "_">> \o Id36(id)

CommentFullname(id) == <<"t1", "_">> \o Id36(id)

AccountFullname(id) == <<"t2", "_">> \o Id36(id)

LinkNames == {LinkFullname(i) : i \in LinkIds}

CommentNames == {CommentFullname(i) : i \in CommentIds}

ThingNames == LinkNames \cup CommentNames

\* Link._by_fullname: the link record of a fullname
LinkTable ==
    [i \in LinkIds |->
        CASE i = 1 -> [author_id |-> 1, sr_id |-> 11,
                       url |-> <<"www", "example", "com">>,
                       spam |-> FALSE, deleted |-> FALSE]
          [] i = 2 -> [author_id |-> 2, sr_id |-> 12,
                       url |-> <<"localhost">>,
                       spam |-> FALSE, deleted |-> FALSE]
          [] i = 3 -> [author_id |-> 1, sr_id |-> 12,
                       url |-> <<"example", "com">>,
                       spam |-> TRUE, deleted |-> FALSE]
          [] i = 4 -> [author_id |-> 2, sr_id |-> 11,
                       url |-> <<"example", "com">>,
                       spam |-> FALSE, deleted |-> TRUE]
          [] OTHER -> [author_id |-> 1, sr_id |-> 12,
                       url |-> <<"blog", "example", "com">>,
                       spam |-> FALSE, deleted |-> FALSE]]

LinkIdOf == [name \in LinkNames |-> CHOOSE i \in LinkIds : LinkFullname(i) = name]

LinkByFullname(name) == LinkTable[LinkIdOf[name]]

\* Comment._by_fullname
CommentTable ==
    [i \in CommentIds |-> [author_id |-> 1, spam |-> FALSE, deleted |-> FALSE]]

CommentByFullname(name) ==
    CommentTable[CHOOSE i \in CommentIds : CommentFullname(i) = name]

-----------------------------------------------------------------------------
(* Vote messages: the payloads cast_vote serializes, and corrupt records *)

RequiredKeys == {"user_id", "thing_fullname", "direction", "date", "data"}

\* a well-formed payload, as json.dumps(vote_data) of cast_vote writes it
VoteMessage(user_id, thing_fullname, direction, date) ==
    [body |-> "json", keys |-> RequiredKeys, user_id |-> user_id,
     thing_fullname |-> thing_fullname, direction |-> direction,
     date |-> date, hook_ok |-> TRUE, type_ok |-> TRUE]

NoMsg ==
    [body |-> "none", keys |-> {}, user_id |-> 0, thing_fullname |-> <<>>,
     direction |-> "none", date |-> 0, hook_ok |-> TRUE, type_ok |-> TRUE]

\* the votes on links that may be waiting on vote_link_q
LinkVoteInputs ==
    { VoteMessage(1, LinkFullname(1), "up", 1),
      VoteMessage(1, LinkFullname(1), "down", 2),
      VoteMessage(1, LinkFullname(1), "none", 3),
      VoteMessage(2, LinkFullname(2), "up", 4),
      VoteMessage(1, LinkFullname(2), "up", 6),
      VoteMessage(1, LinkFullname(3), "up", 7),
      VoteMessage(1, LinkFullname(4), "up", 8) }

\* corrupt records on vote_link_q: a body that is no JSON, a payload without
\* user_id, a payload without direction, a payload the validation hook
\* rejects, a payload the Vote constructor rejects with TypeError; and on
\* vote_comment_q a payload the Vote constructor rejects with TypeError
CorruptInputs ==
    { [VoteMessage(1, LinkFullname(1), "up", 11) EXCEPT !.body = "garbage"],
      [VoteMessage(1, LinkFullname(1), "up", 12) EXCEPT
           !.keys = RequiredKeys \ {"user_id"}],
      [VoteMessage(1, LinkFullname(1), "up", 13) EXCEPT
           !.keys = RequiredKeys \ {"direction"}],
      [VoteMessage(1, LinkFullname(1), "up", 14) EXCEPT !.hook_ok = FALSE],
      [VoteMessage(1, LinkFullname(1), "up", 15) EXCEPT !.type_ok = FALSE],
      [VoteMessage(2, CommentFullname(1), "up", 16) EXCEPT !.type_ok = FALSE] }

\* the votes on comments that may be waiting on vote_comment_q
CommentVoteInputs ==
    { VoteMessage(2, CommentFullname(1), "up", 21),
      VoteMessage(2, CommentFullname(1), "down", 22) }

\* first votes on two links whose hostnames differ and share a domain
ShardInputs ==
    { VoteMessage(1, LinkFullname(1), "up", 1),
      VoteMessage(2, LinkFullname(5), "up", 9) }

InputMessages ==
    LinkVoteInputs \cup CorruptInputs \cup CommentVoteInputs \cup ShardInputs

\* what the queues hold when the consumers start is drawn from one of these:
\* votes on links; corrupt records beside a vote on the same link; votes on a
\* comment beside votes on a link; votes on links of one domain
InputFamilies ==
    { LinkVoteInputs,
      ShardInputs,
      CorruptInputs \cup {VoteMessage(1, LinkFullname(1), "down", 2)},
      CommentVoteInputs \cup {VoteMessage(1, LinkFullname(1), "up", 1),
                              VoteMessage(1, LinkFullname(1), "down", 2)} }

VoteQueueNames == {"vote_link_q", "vote_comment_q"}

\* thing.vote_queue_name
VoteQueueName(thing_fullname) ==
    IF thing_fullname[1] = "t1" THEN "vote_comment_q" ELSE "vote_link_q"

Pairs == Users \X ThingNames

-----------------------------------------------------------------------------
(* The Vote model (r2.models.vote) *)

NoVote == [user |-> 0, thing |-> <<>>, direction |-> "none", previous |-> "absent"]

\* Vote(user, thing, direction=...): the new vote and the vote it replaces
NewVote(user_id, thing_fullname, direction) ==
    [user |-> user_id, thing |-> thing_fullname, direction |-> direction,
     previous |-> votes[<<user_id, thing_fullname>>]]

\* vote.is_automatic_initial_vote: the actor's first vote on the target
IsAutomaticInitialVote(v) == v.previous = "absent"

\* vote.effects.affects_score: the change altered the target's score
AffectsScore(v) ==
    v.direction # (IF v.previous = "absent" THEN "none" ELSE v.previous)

\* vote.commit(): upsert of the Vote of (user, thing)
VoteCommit(v) == [votes EXCEPT ![<<v.user, v.thing>>] = v.direction]

\* comment.num_votes
NumVotes(comment_fullname, vs) ==
    Cardinality({u \in Users : vs[<<u, comment_fullname>>] \in {"up", "down"}})

-----------------------------------------------------------------------------
(* update_user_liked *)

\* update_user_liked without the removal from the previous cached query
LikedAfterUpdateKeepsPrevious(v) ==
    [liked EXCEPT ![v.user] = @ \cup (IF v.direction = "up" THEN {v.thing} ELSE {})]

LikedAfterUpdate(v) ==
    LET removed == IF v.previous = "up" THEN {v.thing} ELSE {}
        added   == IF v.direction = "up" THEN {v.thing} ELSE {}
    IN  [liked EXCEPT ![v.user] = (@ \ removed) \cup added]

DislikedAfterUpdate(v) ==
    LET removed == IF v.previous = "down" THEN {v.thing} ELSE {}
        added   == IF v.direction = "down" THEN {v.thing} ELSE {}
    IN  [disliked EXCEPT ![v.user] = (@ \ removed) \cup added]

-----------------------------------------------------------------------------
(* Locks of g.make_lock("voting", key, timeout=5) *)

\* a lock key without its two arguments: one lock for every vote
LockKeyShared(user_id, thing_fullname) == <<"vote", "-">>

\* "vote-%s-%s" % (user._id36, link._fullname)
LockKey(user_id, thing_fullname) ==
    <<"vote", "-">> \o Id36(user_id) \o <<"-">> \o thing_fullname

LockHeld(key) == \E l \in locks : l.key = key

Holds(p, key) == [key |-> key, owner |-> p] \in locks

-----------------------------------------------------------------------------
(* Fan-out queues *)

\* UrlParser(url).hostname, as its dot-separated labels
Hostname(url) == url

\* UrlParser.domain_permutations(): the suffixes of the hostname that still
\* hold two labels or more ("www.example.com", "example.com")
DomainPermutations(url) ==
    {SubSeq(Hostname(url), x, Len(Hostname(url))) : x \in 1 .. (Len(Hostname(url)) - 1)}

HostLabels == <<"www", "example", "com", "localhost", "blog">>

LabelCode(label) == CHOOSE i \in 1 .. Len(HostLabels) : HostLabels[i] = label

\* hash(parsed.hostname): a function of the whole hostname
RECURSIVE HostHash(_)
HostHash(h) ==
    IF h = <<>> THEN 7
    ELSE (HostHash(SubSeq(h, 1, Len(h) - 1)) * 31 + LabelCode(h[Len(h)])) % 65536

AuthorQueueName(link) ==
    IF shardCfg.author
    THEN <<"author_query_">> \o Decimal(link.author_id % ShardCount) \o <<"_q">>
    ELSE <<"author_query_q">>

SubredditQueueName(link) ==
    IF shardCfg.subreddit
    THEN <<"subreddit_query_">> \o Decimal(link.sr_id % ShardCount) \o <<"_q">>
    ELSE <<"subreddit_query_q">>

DomainQueueName(link) ==
    IF shardCfg.domain
    THEN <<"domain_query_">>
         \o Decimal(HostHash(Hostname(link.url)) % ShardCount) \o <<"_q">>
    ELSE <<"domain_query_q">>

AuthorQueueNames ==
    {<<"author_query_q">>} \cup
    {<<"author_query_">> \o Decimal(s) \o <<"_q">> : s \in 0 .. (ShardCount - 1)}

SubredditQueueNames ==
    {<<"subreddit_query_q">>} \cup
    {<<"subreddit_query_">> \o Decimal(s) \o <<"_q">> : s \in 0 .. (ShardCount - 1)}

DomainQueueNames ==
    {<<"domain_query_q">>} \cup
    {<<"domain_query_">> \o Decimal(s) \o <<"_q">> : s \in 0 .. (ShardCount - 1)}

FanQueueNames == AuthorQueueNames \cup SubredditQueueNames \cup DomainQueueNames

\* the items waiting on a queue (a queue never written to holds none)
Items(q, queue_name) == IF queue_name \in DOMAIN q THEN q[queue_name] ELSE <<>>

\* amqp.add_item(queue_name, body) on a fan-out queue
AddItem(q, queue_name, body) ==
    LET before == q
    IN  (queue_name :> Append(Items(before, queue_name), body)) @@ before

\* add_to_author_query_q(link): the queues after the call
AddToAuthorQueryQ(q, name) == AddItem(q, AuthorQueueName(LinkByFullname(name)), name)

\* add_to_subreddit_query_q(link)
AddToSubredditQueryQ(q, name) ==
    AddItem(q, SubredditQueueName(LinkByFullname(name)), name)

\* add_to_domain_query_q without the test of domain_permutations()
AddToDomainQueryQUnchecked(q, name) ==
    AddItem(q, DomainQueueName(LinkByFullname(name)), name)

\* add_to_domain_query_q(link)
AddToDomainQueryQ(q, name) ==
    IF DomainPermutations(LinkByFullname(name).url) = {}
    THEN q
    ELSE AddItem(q, DomainQueueName(LinkByFullname(name)), name)

\* the fan-out of process_message: author, subreddit, domain, in that order
FanOutLink(q, name) ==
    AddToDomainQueryQ(AddToSubredditQueryQ(AddToAuthorQueryQ(q, name), name), name)

\* link_valid without the test of link._deleted
FanoutEligibleIgnoresDeleted(v, link) ==
    (IsAutomaticInitialVote(v) \/ AffectsScore(v)) /\ ~link.spam

\* vote_valid and link_valid of consume_link_vote_queue.process_message
FanoutEligible(v, link) ==
    (IsAutomaticInitialVote(v) \/ AffectsScore(v))
    /\ ~(link.spam \/ link.deleted)

-----------------------------------------------------------------------------
(* Derived listings (cached queries) *)

AccountKey(id) == AccountFullname(id)

SubredditKey(id) == <<"t5", "_">> \o Id36(id)

SrIds == {LinkTable[i].sr_id : i \in LinkIds}

Domains == UNION {DomainPermutations(LinkTable[i].url) : i \in LinkIds}

Dimensions == {"submitted", "links", "domain"}

SortSet == {SORTS[i] : i \in 1 .. Len(SORTS)}

\* get_submitted(author, sort, 'all'), get_links(sr, sort, 'all'),
\* get_domain_links(domain, sort, 'all'), get_comments(author, sort, 'all')
ListingKeys ==
    [dim : {"submitted", "comments"}, key : {AccountKey(u) : u \in Users}, sort : SortSet]
    \cup [dim : {"links"}, key : {SubredditKey(s) : s \in SrIds}, sort : SortSet]
    \cup [dim : {"domain"}, key : Domains, sort : SortSet]

\* the items of a cached query (a query never written to holds none)
Listed(ls, k) == IF k \in DOMAIN ls THEN ls[k] ELSE <<>>

InSeq(x, seq) == \E i \in 1 .. Len(seq) : seq[i] = x

\* the insertion of one item into a cached query: an item already present is
\* not added again
InsertItem(seq, item) == IF InSeq(item, seq) THEN seq ELSE Append(seq, item)

RECURSIVE InsertItems(_, _)
InsertItems(seq, items) ==
    IF items = <<>> THEN seq
    ELSE InsertItems(InsertItem(seq, Head(items)), Tail(items))

\* add_queries(queries=[query(key, sort, 'all') for sort in SORTS],
\*             insert_items=items)
AddQueries(ls, dim, key, items) ==
    LET before == ls
        queries == {[dim |-> dim, key |-> key, sort |-> s] : s \in SortSet}
    IN  [k \in queries |-> InsertItems(Listed(before, k), items)] @@ before

-----------------------------------------------------------------------------
(* The vote commit consumers *)

LinkProcs == {"link1", "link2"}

CommentProcs == {"comment1"}

Procs == LinkProcs \cup CommentProcs

\* the queue a consumer was started on (qname)
QueueOf(p) == IF p \in LinkProcs THEN "vote_link_q" ELSE "vote_comment_q"

NoResult == [outcome |-> "none", enq |-> {}, timer |-> "unstarted"]

\* process_message returns normally
Return(p, m, outcome, enq, timer) ==
    /\ pc' = [pc EXCEPT ![p] = "returned"]
    /\ cur' = [cur EXCEPT ![p] = m]
    /\ result' = [result EXCEPT ![p] =
                    [outcome |-> outcome, enq |-> enq, timer |-> timer]]
    /\ voteQ' = [voteQ EXCEPT ![QueueOf(p)] = @ \ {m}]

\* process_message raises
Raise(p, m, timer) ==
    /\ pc' = [pc EXCEPT ![p] = "raised"]
    /\ cur' = [cur EXCEPT ![p] = m]
    /\ result' = [result EXCEPT ![p] =
                    [outcome |-> "raised", enq |-> {}, timer |-> timer]]
    /\ voteQ' = [voteQ EXCEPT ![QueueOf(p)] = @ \ {m}]

\* process_message goes on with message m at position next
Continue(p, m, next) ==
    /\ pc' = [pc EXCEPT ![p] = next]
    /\ cur' = [cur EXCEPT ![p] = m]
    /\ result' = result
    /\ voteQ' = [voteQ EXCEPT ![QueueOf(p)] = @ \ {m}]

\* json.loads, the validation hook, timer.start(), and the two pops that
\* resolve the user and the thing; then on to position next
Receive(p, m, next) ==
    /\ pc[p] = "idle"
    /\ m \in voteQ[QueueOf(p)]
    /\ IF m.body # "json" THEN Raise(p, m, "unstarted")
       ELSE IF ~m.hook_ok THEN Return(p, m, "dropped", {}, "unstarted")
       ELSE IF ~({"user_id", "thing_fullname"} \subseteq m.keys)
            THEN Raise(p, m, "running")
       ELSE Continue(p, m, next)

\* the position after the user and the link are resolved
LinkAfterResolve == "lock"

LinkReceive(p, m) ==
    /\ Receive(p, m, LinkAfterResolve)
    /\ UNCHANGED <<acked, vote, redelivered, votes, liked, disliked, locks, fanQ, commentsQ,
                   listing, handled, batch>>
    /\ UNCHANGED configVars
    /\ UNCHANGED submitVars

\* the direction process_message hands to Vote(...)
VoteDirection(m) == m.direction

\* vote = Vote(user, link, direction=vote_data["direction"], ...)
ConstructVote(m) == NewVote(m.user_id, m.thing_fullname, VoteDirection(m))

\* a with block that reaches down to the end of process_message: the lock
\* is still held when the fan-out is decided
ReleaseLockAtReturn(p) == locks' = locks

ReleaseLock(p) == locks' = {l \in locks : l.owner # p}

\* process_message without the with statement: it never waits for the lock
LockAvailableAlways(p) == pc[p] = "lock"

\* with g.make_lock("voting", lock_key, timeout=5): process_message goes on
\* only once no other consumer holds the lock of lock_key
LockAvailable(p) == ~LockHeld(LockKey(cur[p].user_id, cur[p].thing_fullname))

\* a process_message whose try block does not catch the TypeError
OnTypeErrorRaises(p) == Raise(p, cur[p], "running")

\* except TypeError: the error is logged and process_message returns, before
\* timer.stop() and timer.flush()
OnTypeError(p) == Return(p, cur[p], "abandoned", {}, "running")

\* with g.make_lock("voting", lock_key, timeout=5): the lock is free and is
\* taken.  Then the try block inside the lock: a missing key raises KeyError
\* through the with statement, a TypeError is logged and process_message
\* returns; either way the with statement releases the lock
LinkAcquire(p) ==
    /\ pc[p] = "lock"
    /\ LockAvailable(p)
    /\ IF ~({"direction", "date", "data"} \subseteq cur[p].keys)
       THEN Raise(p, cur[p], "running") /\ UNCHANGED <<locks, vote>>
       ELSE IF ~cur[p].type_ok
       THEN OnTypeError(p) /\ UNCHANGED <<locks, vote>>
       ELSE /\ locks' = locks \cup
                   {[key |-> LockKey(cur[p].user_id, cur[p].thing_fullname),
                     owner |-> p]}
            /\ vote' = [vote EXCEPT ![p] = ConstructVote(cur[p])]
            /\ pc' = [pc EXCEPT ![p] = "commit"]
            /\ UNCHANGED <<voteQ, cur, result>>
    /\ UNCHANGED <<acked, redelivered, votes, liked, disliked, fanQ, commentsQ,
                   listing, handled, batch>>
    /\ UNCHANGED configVars
    /\ UNCHANGED submitVars

\* a process_message that catches the timeout of the lock and returns
AfterLockTimeoutDropped(p) == Return(p, cur[p], "dropped", {}, "running")

\* the with statement is inside no try block: the exception of make_lock
\* leaves process_message
AfterLockTimeout(p) == Raise(p, cur[p], "running")

\* the lock stays held by another consumer for the 5 seconds: make_lock
\* raises, and so does process_message
LinkLockTimeout(p) ==
    /\ pc[p] = "lock"
    /\ LockHeld(LockKey(cur[p].user_id, cur[p].thing_fullname))
    /\ AfterLockTimeout(p)
    /\ UNCHANGED <<acked, vote, redelivered, votes, liked, disliked, locks, fanQ, commentsQ,
                   listing, handled, batch>>
    /\ UNCHANGED configVars
    /\ UNCHANGED submitVars

\* vote.commit()
LinkCommit(p) ==
    /\ pc[p] = "commit"
    /\ votes' = VoteCommit(vote[p])
    /\ pc' = [pc EXCEPT ![p] = "liked"]
    /\ UNCHANGED <<voteQ, acked, redelivered, cur, vote, result, liked, disliked,
                   locks, fanQ, commentsQ, listing, handled, batch>>
    /\ UNCHANGED configVars
    /\ UNCHANGED submitVars

\* update_user_liked(vote), then the end of the with block releases the lock
LinkUpdateLiked(p) ==
    /\ pc[p] = "liked"
    /\ liked' = LikedAfterUpdate(vote[p])
    /\ disliked' = DislikedAfterUpdate(vote[p])
    /\ ReleaseLock(p)
    /\ pc' = [pc EXCEPT ![p] = "fanout"]
    /\ UNCHANGED <<voteQ, acked, redelivered, cur, vote, result, votes, fanQ,
                   commentsQ, listing, handled, batch>>
    /\ UNCHANGED configVars
    /\ UNCHANGED submitVars

\* the names of the queues on which q2 holds more items than q1
Enqueued(q1, q2) == {n \in DOMAIN q2 : Len(Items(q2, n)) > Len(Items(q1, n))}

\* vote_valid, link_valid, the three add_to_*_query_q, timer.stop() and
\* timer.flush(); process_message returns
LinkFanOut(p) ==
    /\ pc[p] = "fanout"
    /\ fanQ' = IF FanoutEligible(vote[p], LinkByFullname(cur[p].thing_fullname))
               THEN FanOutLink(fanQ, cur[p].thing_fullname)
               ELSE fanQ
    /\ Return(p, cur[p], "completed", Enqueued(fanQ, fanQ'), "flushed")
    /\ UNCHANGED <<acked, vote, redelivered, votes, liked, disliked, locks, commentsQ,
                   listing, handled, batch>>
    /\ UNCHANGED configVars
    /\ UNCHANGED submitVars

CommentReceive(p, m) ==
    /\ Receive(p, m, "construct")
    /\ UNCHANGED <<acked, vote, redelivered, votes, liked, disliked, locks, fanQ, commentsQ,
                   listing, handled, batch>>
    /\ UNCHANGED configVars
    /\ UNCHANGED submitVars

\* the try block of the comment consumer: no lock is taken
CommentConstruct(p) ==
    /\ pc[p] = "construct"
    /\ IF ~({"direction", "date", "data"} \subseteq cur[p].keys)
       THEN Raise(p, cur[p], "running") /\ vote' = vote
       ELSE IF ~cur[p].type_ok
       THEN OnTypeError(p) /\ vote' = vote
       ELSE /\ vote' = [vote EXCEPT ![p] = ConstructVote(cur[p])]
            /\ pc' = [pc EXCEPT ![p] = "commit"]
            /\ UNCHANGED <<voteQ, cur, result>>
    /\ UNCHANGED <<acked, redelivered, votes, liked, disliked, locks, fanQ, commentsQ,
                   listing, handled, batch>>
    /\ UNCHANGED configVars
    /\ UNCHANGED submitVars

\* vote.commit()
CommentCommit(p) ==
    /\ pc[p] = "commit"
    /\ votes' = VoteCommit(vote[p])
    /\ pc' = [pc EXCEPT ![p] = "post"]
    /\ UNCHANGED <<voteQ, acked, redelivered, cur, vote, result, liked, disliked,
                   locks, fanQ, commentsQ, listing, handled, batch>>
    /\ UNCHANGED configVars
    /\ UNCHANGED submitVars

\* an update only while num_votes is below update_threshold, or periodically
UpdateCommentsTreeBelow(num_votes) ==
    num_votes < liveConfig.threshold \/ num_votes % liveConfig.period = 0

\* num_votes <= update_threshold or num_votes % update_period == 0
UpdateCommentsTree(num_votes) ==
    num_votes <= liveConfig.threshold \/ num_votes % liveConfig.period = 0

\* vote_valid, comment_valid, add_queries on the author's comment listings,
\* add_to_commentstree_q, timer.stop() and timer.flush()
CommentPost(p) ==
    LET name    == cur[p].thing_fullname
        comment == CommentByFullname(name)
        valid   == (IsAutomaticInitialVote(vote[p]) \/ AffectsScore(vote[p]))
                   /\ ~(comment.spam \/ comment.deleted)
    IN  /\ pc[p] = "post"
        /\ listing' = IF valid
                      THEN AddQueries(listing, "comments",
                                      AccountKey(comment.author_id), <<name>>)
                      ELSE listing
        /\ commentsQ' = IF valid /\ UpdateCommentsTree(NumVotes(name, votes))
                        THEN Append(commentsQ, name)
                        ELSE commentsQ
        /\ Return(p, cur[p], "completed", {}, "flushed")
        /\ UNCHANGED <<acked, vote, redelivered, votes, liked, disliked, locks, fanQ,
                       handled, batch>>
        /\ UNCHANGED configVars
        /\ UNCHANGED submitVars

\* amqp.consume_items after process_message ended: a message whose processing
\* returned is acknowledged, one whose processing raised stays with the broker
\* and is delivered again
ConsumeItems(p) ==
    /\ pc[p] \in {"returned", "raised"}
    /\ IF pc[p] = "returned"
       THEN acked' = acked \cup {cur[p]} /\ voteQ' = voteQ
       ELSE acked' = acked /\ voteQ' = [voteQ EXCEPT ![QueueOf(p)] = @ \cup {cur[p]}]
    /\ pc' = [pc EXCEPT ![p] = "idle"]
    /\ cur' = [cur EXCEPT ![p] = NoMsg]
    /\ vote' = [vote EXCEPT ![p] = NoVote]
    /\ result' = [result EXCEPT ![p] = NoResult]
    /\ UNCHANGED <<redelivered, votes, liked, disliked, locks, fanQ, commentsQ,
                   listing, handled, batch>>
    /\ UNCHANGED configVars
    /\ UNCHANGED submitVars

\* the broker delivers an acknowledged message once more (at-least-once)
Redeliver(m) ==
    /\ m \in acked
    /\ m \notin voteQ[VoteQueueName(m.thing_fullname)]
    /\ \A p \in Procs : cur[p] # m
    /\ redelivered < MaxRedeliver
    /\ redelivered' = redelivered + 1
    /\ voteQ' = [voteQ EXCEPT ![VoteQueueName(m.thing_fullname)] = @ \cup {m}]
    /\ UNCHANGED <<acked, pc, cur, vote, result, votes, liked, disliked, locks, fanQ,
                   commentsQ, listing, handled, batch>>
    /\ UNCHANGED configVars
    /\ UNCHANGED submitVars

-----------------------------------------------------------------------------
(* The state before any request or delivery *)

\* the sharding switches: every queue unsharded, or every queue sharded
ShardConfigs ==
    {[author |-> b, subreddit |-> b, domain |-> b] : b \in BOOLEAN}

LiveConfigs == {[threshold |-> 1, period |-> 3]}

NoEntry == "absent"

PrequeuedKeys == {<<u, t>> : u \in Users, t \in ThingNames}

\* the last process_message of the listing consumers, if any, returned
NoBatch == [dim |-> "none", keys |-> {}, updated |-> {}, failed |-> {}]

InitData ==
    /\ acked = {}
    /\ redelivered = 0
    /\ pc = [p \in Procs |-> "idle"]
    /\ cur = [p \in Procs |-> NoMsg]
    /\ vote = [p \in Procs |-> NoVote]
    /\ result = [p \in Procs |-> NoResult]
    /\ votes = [pr \in Pairs |-> "absent"]
    /\ liked = [u \in Users |-> {}]
    /\ disliked = [u \in Users |-> {}]
    /\ locks = {}
    /\ listing = [k \in {} |-> <<>>]
    /\ handled = [d \in Dimensions |-> [l \in LinkNames |-> 0]]
    /\ batch = NoBatch
    /\ commentsQ = <<>>

InitStores ==
    /\ InitData
    /\ liveConfig \in LiveConfigs

InitSubmit ==
    /\ req = <<>>
    /\ gencache = [k \in PrequeuedKeys |-> NoEntry]
    /\ lastModified = {}
    /\ clock = 0

\* the consumers start on queues that hold up to MaxMsgs messages
Init ==
    /\ InitStores
    /\ InitSubmit
    /\ shardCfg \in ShardConfigs
    /\ fanQ = [n \in {} |-> <<>>]
    /\ \E F \in InputFamilies : \E S \in SUBSET F :
          /\ Cardinality(S) <= MaxMsgs
          /\ voteQ = [q \in VoteQueueNames |->
                        {m \in S : VoteQueueName(m.thing_fullname) = q}]

Next ==
    \/ \E p \in LinkProcs, m \in InputMessages : LinkReceive(p, m)
    \/ \E p \in LinkProcs : LinkAcquire(p)
    \/ \E p \in LinkProcs : LinkLockTimeout(p)
    \/ \E p \in LinkProcs : LinkCommit(p)
    \/ \E p \in LinkProcs : LinkUpdateLiked(p)
    \/ \E p \in LinkProcs : LinkFanOut(p)
    \/ \E p \in CommentProcs, m \in InputMessages : CommentReceive(p, m)
    \/ \E p \in CommentProcs : CommentConstruct(p)
    \/ \E p \in CommentProcs : CommentCommit(p)
    \/ \E p \in CommentProcs : CommentPost(p)
    \/ \E p \in Procs : ConsumeItems(p)
    \/ \E m \in InputMessages : Redeliver(m)

Spec == Init /\ [][Next]_vars

-----------------------------------------------------------------------------
(* The link vote consumers alone, each of them running forever *)

\* well-formed votes, three of them on one (actor, target) pair
RetryInputs ==
    { VoteMessage(1, LinkFullname(1), "up", 1),
      VoteMessage(1, LinkFullname(1), "down", 2),
      VoteMessage(1, LinkFullname(1), "none", 3),
      VoteMessage(2, LinkFullname(2), "up", 4) }

InitRetry ==
    /\ InitStores
    /\ InitSubmit
    /\ shardCfg = [author |-> FALSE, subreddit |-> FALSE, domain |-> FALSE]
    /\ fanQ = [n \in {} |-> <<>>]
    /\ \E S \in SUBSET RetryInputs :
          /\ Cardinality(S) \in 1 .. MaxMsgs
          /\ voteQ = [q \in VoteQueueNames |->
                        IF q = "vote_link_q" THEN S ELSE {}]

\* a step of link vote consumer p: amqp.consume_items delivers a message to
\* process_message, process_message goes on, or its end is handled
LinkStep(p) ==
    \/ \E m \in RetryInputs : LinkReceive(p, m)
    \/ LinkAcquire(p)
    \/ LinkLockTimeout(p)
    \/ LinkCommit(p)
    \/ LinkUpdateLiked(p)
    \/ LinkFanOut(p)
    \/ ConsumeItems(p)

NextRetry == \E p \in LinkProcs : LinkStep(p)

\* every consumer is a process of its own that keeps running, and the
\* broker keeps delivering the messages it holds
SpecRetry ==
    /\ InitRetry
    /\ [][NextRetry]_vars
    /\ \A p \in LinkProcs : WF_vars(LinkStep(p))

-----------------------------------------------------------------------------
(* The link vote consumers when vote.commit() or update_user_liked raises *)

\* a lock that its holder must release by hand, and does not on an error
ReleaseOnErrorSkipped(p) == locks' = locks

\* with g.make_lock(...): an exception that leaves the with block releases
\* the lock on its way out
ReleaseOnError(p) == ReleaseLock(p)

\* vote.commit() raises: nothing is stored, the exception leaves the with
\* block and process_message
LinkCommitFails(p) ==
    /\ pc[p] = "commit"
    /\ Raise(p, cur[p], "running")
    /\ ReleaseOnError(p)
    /\ UNCHANGED <<acked, vote, redelivered, votes, liked, disliked, fanQ, commentsQ,
                   listing, handled, batch>>
    /\ UNCHANGED configVars
    /\ UNCHANGED submitVars

\* update_user_liked(vote) raises after the commit: the mutator sends
\* nothing, the exception leaves the with block and process_message
LinkUpdateLikedFails(p) ==
    /\ pc[p] = "liked"
    /\ Raise(p, cur[p], "running")
    /\ ReleaseOnError(p)
    /\ UNCHANGED <<acked, vote, redelivered, votes, liked, disliked, fanQ, commentsQ,
                   listing, handled, batch>>
    /\ UNCHANGED configVars
    /\ UNCHANGED submitVars

\* votes of one actor on one link, one of them of a type the Vote
\* constructor rejects, one without direction, and a vote of another actor
LockFaultInputs ==
    { VoteMessage(1, LinkFullname(1), "up", 1),
      VoteMessage(1, LinkFullname(1), "down", 2),
      [VoteMessage(1, LinkFullname(1), "up", 13) EXCEPT
           !.keys = RequiredKeys \ {"direction"}],
      [VoteMessage(1, LinkFullname(1), "up", 15) EXCEPT !.type_ok = FALSE],
      VoteMessage(2, LinkFullname(2), "up", 4) }

InitLockFaults ==
    /\ InitStores
    /\ InitSubmit
    /\ shardCfg = [author |-> FALSE, subreddit |-> FALSE, domain |-> FALSE]
    /\ fanQ = [n \in {} |-> <<>>]
    /\ \E S \in SUBSET LockFaultInputs :
          /\ Cardinality(S) \in 1 .. MaxMsgs
          /\ voteQ = [q \in VoteQueueNames |->
                        IF q = "vote_link_q" THEN S ELSE {}]

NextLockFaults ==
    \E p \in LinkProcs :
        \/ \E m \in LockFaultInputs : LinkReceive(p, m)
        \/ LinkAcquire(p)
        \/ LinkLockTimeout(p)
        \/ LinkCommit(p)
        \/ LinkCommitFails(p)
        \/ LinkUpdateLiked(p)
        \/ LinkUpdateLikedFails(p)
        \/ LinkFanOut(p)
        \/ ConsumeItems(p)

SpecLockFaults == InitLockFaults /\ [][NextLockFaults]_vars

-----------------------------------------------------------------------------
(* The comment vote consumer under every setting of g.live_config *)

\* comment_vote_update_threshold and comment_vote_update_period
CommentLiveConfigs ==
    {[threshold |-> t, period |-> d] : t \in 0 .. 2, d \in 2 .. 3}

\* votes of the two accounts on one comment, and the withdrawal of one
CommentInputs ==
    { VoteMessage(1, CommentFullname(1), "up", 23),
      VoteMessage(2, CommentFullname(1), "up", 21),
      VoteMessage(2, CommentFullname(1), "down", 22),
      VoteMessage(2, CommentFullname(1), "none", 24) }

InitComment ==
    /\ InitData
    /\ InitSubmit
    /\ liveConfig \in CommentLiveConfigs
    /\ shardCfg = [author |-> FALSE, subreddit |-> FALSE, domain |-> FALSE]
    /\ fanQ = [n \in {} |-> <<>>]
    /\ \E S \in SUBSET CommentInputs :
          /\ Cardinality(S) \in 1 .. MaxMsgs
          /\ voteQ = [q \in VoteQueueNames |->
                        IF q = "vote_comment_q" THEN S ELSE {}]

NextComment ==
    \E p \in CommentProcs :
        \/ \E m \in CommentInputs : CommentReceive(p, m)
        \/ CommentConstruct(p)
        \/ CommentCommit(p)
        \/ CommentPost(p)
        \/ ConsumeItems(p)

SpecComment == InitComment /\ [][NextComment]_vars

-----------------------------------------------------------------------------
(* The derived-listing consumers *)

Min(a, b) == IF a < b THEN a ELSE b

Count(x, seq) == Cardinality({i \in 1 .. Len(seq) : seq[i] = x})

\* the messages of each link in a batch, added to the count of the dimension
Handled(dim, msgs) ==
    [handled EXCEPT ![dim] = [l \in LinkNames |-> @[l] + Count(l, msgs)]]

\* link_names = {msg.body for msg in msgs}
BatchNames(msgs) == {msgs[i] : i \in 1 .. Len(msgs)}

\* Link._by_fullname(link_names, return_dict=False): the links of the set, in
\* some order
Orderings(S) ==
    {seq \in [1 .. Cardinality(S) -> S] :
        \A i, j \in 1 .. Cardinality(S) : i # j => seq[i] # seq[j]}

\* links_by_author_id: author -> the links of the batch by that author
LinksByAuthorId(links) ==
    [a \in {AccountKey(LinkByFullname(links[i]).author_id) : i \in 1 .. Len(links)} |->
        SelectSeq(links, LAMBDA n : AccountKey(LinkByFullname(n).author_id) = a)]

\* links_by_sr_id: subreddit -> the links of the batch in that subreddit
LinksBySrId(links) ==
    [r \in {SubredditKey(LinkByFullname(links[i]).sr_id) : i \in 1 .. Len(links)} |->
        SelectSeq(links, LAMBDA n : SubredditKey(LinkByFullname(n).sr_id) = r)]

\* links_by_domain with only the hostname of each link as its domain
LinksByHostnameOnly(links) ==
    [d \in {Hostname(LinkByFullname(links[i]).url) : i \in 1 .. Len(links)}
             \cap Domains |->
        SelectSeq(links, LAMBDA n : Hostname(LinkByFullname(n).url) = d)]

\* links_by_domain: domain -> the links of the batch with that domain among
\* the permutations of their URL's domain
LinksByDomain(links) ==
    [d \in UNION {DomainPermutations(LinkByFullname(links[i]).url) :
                    i \in 1 .. Len(links)} |->
        SelectSeq(links, LAMBDA n : d \in DomainPermutations(LinkByFullname(n).url))]

\* for key, links in groups.iteritems(): add_queries(..., insert_items=links)
RECURSIVE AddGroups(_, _, _, _)
AddGroups(ls, dim, keys, groups) ==
    IF keys = {} THEN ls
    ELSE LET k == CHOOSE x \in keys : TRUE
         IN  AddGroups(AddQueries(ls, dim, k, groups[k]), dim, keys \ {k}, groups)

\* amqp.handle_items hands process_message the first n items of the queue and
\* acknowledges them when it returns
TakeBatch(qname, n) ==
    /\ qname \in DOMAIN fanQ
    /\ n \in 1 .. Min(Len(fanQ[qname]), BatchLimit)
    /\ fanQ' = [fanQ EXCEPT ![qname] = SubSeq(@, n + 1, Len(@))]

ListingFrame ==
    /\ UNCHANGED <<voteQ, acked, redelivered, pc, cur, vote, result, votes,
                   liked, disliked, locks, commentsQ>>
    /\ UNCHANGED configVars
    /\ UNCHANGED submitVars

\* consume_author_query_queue.process_message
ConsumeAuthorQueryQueue(qname, n) ==
    /\ qname \in AuthorQueueNames
    /\ TakeBatch(qname, n)
    /\ \E links \in Orderings(BatchNames(SubSeq(fanQ[qname], 1, n))) :
          /\ listing' = AddGroups(listing, "submitted", DOMAIN LinksByAuthorId(links),
                                  LinksByAuthorId(links))
          /\ handled' = Handled("submitted", SubSeq(fanQ[qname], 1, n))
          /\ batch' = NoBatch
    /\ ListingFrame

\* consume_subreddit_query_queue.process_message
ConsumeSubredditQueryQueue(qname, n) ==
    /\ qname \in SubredditQueueNames
    /\ TakeBatch(qname, n)
    /\ \E links \in Orderings(BatchNames(SubSeq(fanQ[qname], 1, n))) :
          /\ listing' = AddGroups(listing, "links", DOMAIN LinksBySrId(links),
                                  LinksBySrId(links))
          /\ handled' = Handled("links", SubSeq(fanQ[qname], 1, n))
          /\ batch' = NoBatch
    /\ ListingFrame

\* consume_domain_query_queue.process_message
ConsumeDomainQueryQueue(qname, n) ==
    /\ qname \in DomainQueueNames
    /\ TakeBatch(qname, n)
    /\ \E links \in Orderings(BatchNames(SubSeq(fanQ[qname], 1, n))) :
          /\ listing' = AddGroups(listing, "domain", DOMAIN LinksByDomain(links),
                                  LinksByDomain(links))
          /\ handled' = Handled("domain", SubSeq(fanQ[qname], 1, n))
          /\ batch' = NoBatch
    /\ ListingFrame

\* the links a vote can fan out: neither spam nor deleted
FanoutLinkNames ==
    {LinkFullname(i) : i \in {j \in LinkIds : ~(LinkTable[j].spam \/ LinkTable[j].deleted)}}

RECURSIVE FanOutAll(_, _)
FanOutAll(q, names) ==
    IF names = <<>> THEN q ELSE FanOutAll(FanOutLink(q, Head(names)), Tail(names))

BatchSizes == 1 .. MaxFanout

LinkSeqs == UNION {[1 .. n -> FanoutLinkNames] : n \in 0 .. MaxFanout}

\* the listing consumers start on the queues that the fan-outs of up to
\* MaxFanout eligible votes have filled
InitListing ==
    /\ InitStores
    /\ InitSubmit
    /\ shardCfg \in ShardConfigs
    /\ voteQ = [q \in VoteQueueNames |-> {}]
    /\ \E names \in LinkSeqs : fanQ = FanOutAll([n \in {} |-> <<>>], names)

NextListing ==
    \/ \E qname \in DOMAIN fanQ, n \in BatchSizes : ConsumeAuthorQueryQueue(qname, n)
    \/ \E qname \in DOMAIN fanQ, n \in BatchSizes : ConsumeSubredditQueryQueue(qname, n)
    \/ \E qname \in DOMAIN fanQ, n \in BatchSizes : ConsumeDomainQueryQueue(qname, n)

SpecListing == InitListing /\ [][NextListing]_vars

-----------------------------------------------------------------------------
(* The derived-listing consumers when add_queries can fail *)

\* the loop over the groups stops at the group whose add_queries raises: the
\* groups the dictionary yielded before it are updated, the others are not,
\* and the batch is not acknowledged
FailAt(dim, groups, updated, failed) ==
    /\ listing' = AddGroups(listing, dim, updated, groups)
    /\ batch' = [dim |-> dim, keys |-> DOMAIN groups, updated |-> updated,
                 failed |-> {failed}]
    /\ UNCHANGED <<fanQ, handled>>
    /\ ListingFrame

\* the loop of process_message over the groups, in the order the dictionary
\* yields them, with add_queries raising for one group
FailInLoop(dim, groups) ==
    \E failed \in DOMAIN groups :
        \E updated \in SUBSET (DOMAIN groups \ {failed}) :
            FailAt(dim, groups, updated, failed)

\* the first n items of queue qname, as Link._by_fullname returns them
BatchLinks(qname, n) ==
    IF qname \in DOMAIN fanQ /\ n <= Min(Len(fanQ[qname]), BatchLimit)
    THEN Orderings(BatchNames(SubSeq(fanQ[qname], 1, n)))
    ELSE {}

AuthorQueryFails(qname, n) ==
    /\ qname \in AuthorQueueNames
    /\ \E links \in BatchLinks(qname, n) :
          FailInLoop("submitted", LinksByAuthorId(links))

SubredditQueryFails(qname, n) ==
    /\ qname \in SubredditQueueNames
    /\ \E links \in BatchLinks(qname, n) :
          FailInLoop("links", LinksBySrId(links))

DomainQueryFails(qname, n) ==
    /\ qname \in DomainQueueNames
    /\ \E links \in BatchLinks(qname, n) :
          FailInLoop("domain", LinksByDomain(links))

\* the queues are not sharded: a batch holds links of every group
InitListingFaults ==
    /\ InitStores
    /\ InitSubmit
    /\ shardCfg = [author |-> FALSE, subreddit |-> FALSE, domain |-> FALSE]
    /\ voteQ = [q \in VoteQueueNames |-> {}]
    /\ \E names \in LinkSeqs :
          /\ Len(names) <= MaxFaultFanout
          /\ fanQ = FanOutAll([n \in {} |-> <<>>], names)

NextListingFaults ==
    \/ \E qname \in DOMAIN fanQ, n \in BatchSizes : ConsumeAuthorQueryQueue(qname, n)
    \/ \E qname \in DOMAIN fanQ, n \in BatchSizes : ConsumeSubredditQueryQueue(qname, n)
    \/ \E qname \in DOMAIN fanQ, n \in BatchSizes : ConsumeDomainQueryQueue(qname, n)
    \/ \E qname \in DOMAIN fanQ, n \in BatchSizes : AuthorQueryFails(qname, n)
    \/ \E qname \in DOMAIN fanQ, n \in BatchSizes : SubredditQueryFails(qname, n)
    \/ \E qname \in DOMAIN fanQ, n \in BatchSizes : DomainQueryFails(qname, n)

SpecListingFaults == InitListingFaults /\ [][NextListingFaults]_vars

-----------------------------------------------------------------------------
(* cast_vote and update_vote_lookups, one step per call they make *)

\* the calls of cast_vote the requests are drawn from
RequestInputs ==
    { <<1, LinkFullname(1), "up">>, <<1, LinkFullname(1), "down">>,
      <<2, CommentFullname(1), "up">> }

\* Vote.serialize_direction
SerializeDirection(direction) ==
    CASE direction = "up" -> "1"
      [] direction = "down" -> "-1"
      [] OTHER -> "0"

\* VotesByAccount.rel(thing.__class__)._last_modified_name
LastModifiedName(thing_fullname) ==
    IF thing_fullname[1] = "t1" THEN "CommentVotesByAccount"
                                ELSE "LinkVotesByAccount"

\* a cast_vote that enqueues without recording the intent first
CastVoteEntrySkipsLookups == "build"

\* the first statement of cast_vote is the call of update_vote_lookups
CastVoteEntry == "lookups"

\* a cast_vote that swallows the error of amqp.add_item
AfterEnqueueFailureSwallowed == "returned"

\* amqp.add_item is the last statement of cast_vote, outside any try block:
\* an exception it raises leaves cast_vote
AfterEnqueueFailure == "raised"

NewRequest(user_id, thing_fullname, direction) ==
    [user |-> user_id, thing |-> thing_fullname, direction |-> direction,
     pc |-> CastVoteEntry, intent |-> "pending", touch |-> "pending",
     msg |-> NoMsg, error |-> "none"]

SubmitFrame == UNCHANGED <<acked, redelivered, pc, cur, vote, result, votes,
                           liked, disliked, locks, fanQ, commentsQ, listing,
                           handled, batch, configVars>>

\* a caller enters cast_vote(user, thing, direction)
Begin(user_id, thing_fullname, direction) ==
    /\ Len(req) < MaxRequests
    /\ req' = Append(req, NewRequest(user_id, thing_fullname, direction))
    /\ UNCHANGED <<voteQ, gencache, lastModified, clock>>
    /\ SubmitFrame

\* g.gencache.set(key, direction, time=grace_period+1)
SetIntent(i) ==
    /\ req[i].pc = "lookups"
    /\ gencache' = [gencache EXCEPT ![<<req[i].user, req[i].thing>>] =
                        SerializeDirection(req[i].direction)]
    /\ req' = [req EXCEPT ![i].intent = "written", ![i].pc = "touch"]
    /\ UNCHANGED <<voteQ, lastModified, clock>>
    /\ SubmitFrame

\* the cache write fails: the client either reports it by an exception,
\* which nothing in update_vote_lookups or cast_vote catches, or does not
SetIntentFails(i, raises) ==
    /\ req[i].pc = "lookups"
    /\ req' = IF raises
                THEN [req EXCEPT ![i].error = "cache", ![i].pc = "raised"]
                ELSE [req EXCEPT ![i].intent = "failed", ![i].pc = "touch"]
    /\ UNCHANGED <<voteQ, gencache, lastModified, clock>>
    /\ SubmitFrame

\* LastModified.touch(user._fullname, rel_cls._last_modified_name)
Touch(i) ==
    /\ req[i].pc = "touch"
    /\ lastModified' = lastModified \cup
          {<<AccountFullname(req[i].user), LastModifiedName(req[i].thing)>>}
    /\ req' = [req EXCEPT ![i].touch = "done", ![i].pc = "build"]
    /\ UNCHANGED <<voteQ, gencache, clock>>
    /\ SubmitFrame

TouchFails(i, raises) ==
    /\ req[i].pc = "touch"
    /\ req' = IF raises
                THEN [req EXCEPT ![i].error = "touch", ![i].pc = "raised"]
                ELSE [req EXCEPT ![i].touch = "failed", ![i].pc = "build"]
    /\ UNCHANGED <<voteQ, gencache, lastModified, clock>>
    /\ SubmitFrame

\* vote_data is built with the date read from the clock, the request data,
\* the vote.get_vote_data hook and the event context
BuildVoteData(i) ==
    /\ req[i].pc = "build"
    /\ req' = [req EXCEPT
                  ![i].msg = VoteMessage(req[i].user, req[i].thing,
                                         req[i].direction, clock),
                  ![i].pc = "enqueue"]
    /\ clock' = clock + 1
    /\ UNCHANGED <<voteQ, gencache, lastModified>>
    /\ SubmitFrame

\* amqp.add_item(thing.vote_queue_name, json.dumps(vote_data)) is accepted
Enqueue(i) ==
    /\ req[i].pc = "enqueue"
    /\ voteQ' = [voteQ EXCEPT ![VoteQueueName(req[i].thing)] =
                     @ \cup {req[i].msg}]
    /\ req' = [req EXCEPT ![i].pc = "returned"]
    /\ UNCHANGED <<gencache, lastModified, clock>>
    /\ SubmitFrame

\* amqp.add_item raises: the queue did not accept the message
EnqueueFails(i) ==
    /\ req[i].pc = "enqueue"
    /\ req' = [req EXCEPT ![i].error = "enqueue",
                          ![i].pc = AfterEnqueueFailure]
    /\ UNCHANGED <<voteQ, gencache, lastModified, clock>>
    /\ SubmitFrame

\* no request has been made and the vote queues are empty
InitCastVote ==
    /\ InitStores
    /\ InitSubmit
    /\ shardCfg = [author |-> FALSE, subreddit |-> FALSE, domain |-> FALSE]
    /\ fanQ = [n \in {} |-> <<>>]
    /\ voteQ = [q \in VoteQueueNames |-> {}]

NextCastVote ==
    \/ \E r \in RequestInputs : Begin(r[1], r[2], r[3])
    \/ \E i \in DOMAIN req : SetIntent(i)
    \/ \E i \in DOMAIN req, raises \in BOOLEAN : SetIntentFails(i, raises)
    \/ \E i \in DOMAIN req : Touch(i)
    \/ \E i \in DOMAIN req, raises \in BOOLEAN : TouchFails(i, raises)
    \/ \E i \in DOMAIN req : BuildVoteData(i)
    \/ \E i \in DOMAIN req : Enqueue(i)
    \/ \E i \in DOMAIN req : EnqueueFails(i)

SpecSubmit == InitCastVote /\ [][NextCastVote]_vars

-----------------------------------------------------------------------------
(* Properties of the vote commit consumers, checked under Spec *)

PairOf(p) == <<cur[p].user_id, cur[p].thing_fullname>>

\* the step in which consumer p commits its Vote
CommitStep(p) == pc[p] = "commit" /\ pc'[p] # "commit"

\* a payload that cannot be parsed, lacks a required field, or is flagged
\* invalid by the validation hook
Malformed(m) ==
    m.body # "json" \/ ~(RequiredKeys \subseteq m.keys) \/ ~m.hook_ok

\* C1: after a consumer commits a message, the Vote of its (actor, target)
\* holds the direction of that message, and committing a message that was
\* already committed and acknowledged before leaves the direction of the Vote
\* as it was.
C1_RedeliveryKeepsDirection ==
    [][\A p \in Procs :
          CommitStep(p) =>
              /\ votes'[PairOf(p)] = cur[p].direction
              /\ cur[p] \in acked => votes'[PairOf(p)] = votes[PairOf(p)]]_vars

\* The first half of C1 alone: the Vote holds the direction of the message
\* committed last, and only a commit changes a Vote.
VoteIsLastCommitted ==
    [][/\ \A p \in Procs : CommitStep(p) => votes'[PairOf(p)] = cur[p].direction
       /\ votes' # votes => \E p \in Procs : CommitStep(p)]_vars

C4_FanoutIffEligible ==
    \A p \in LinkProcs :
        pc[p] = "returned" /\ result[p].outcome = "completed" =>
            LET link     == LinkByFullname(cur[p].thing_fullname)
                eligible == /\ \/ IsAutomaticInitialVote(vote[p])
                               \/ AffectsScore(vote[p])
                            /\ ~link.spam
                            /\ ~link.deleted
            IN  IF eligible
                THEN {AuthorQueueName(link), SubredditQueueName(link)}
                         \subseteq result[p].enq
                ELSE result[p].enq = {}

\* a re-vote in the direction already committed completed without fan-out
C4_Witness ==
    \E p \in LinkProcs :
        /\ pc[p] = "returned"
        /\ result[p].outcome = "completed"
        /\ vote[p].previous = vote[p].direction
        /\ result[p].enq = {}

\* C5: no domain queue, sharded or not, ever holds a link whose URL has no
\* domain permutation.
C5_NoDomainNoDomainQueue ==
    \A n \in DOMAIN fanQ \cap DomainQueueNames :
        \A i \in 1 .. Len(fanQ[n]) :
            DomainPermutations(LinkByFullname(fanQ[n][i]).url) # {}

\* an eligible vote on a link without a domain completed: the link went to
\* other fan-out queues, and to no domain queue
C5_Witness ==
    \E p \in LinkProcs :
        /\ pc[p] = "returned"
        /\ result[p].outcome = "completed"
        /\ DomainPermutations(LinkByFullname(cur[p].thing_fullname).url) = {}
        /\ result[p].enq # {}
        /\ result[p].enq \cap DomainQueueNames = {}

\* C6: the processing of a malformed message never ends by raising: it
\* returns, the message is dropped, and nothing was enqueued.
C6_MalformedDroppedWithoutRaising ==
    \A p \in Procs :
        pc[p] \in {"returned", "raised"} /\ Malformed(cur[p]) =>
            /\ pc[p] = "returned"
            /\ result[p].outcome = "dropped"
            /\ result[p].enq = {}

\* C7: while one link consumer holds the lock of (A1, T1), a consumer that
\* waits for the lock of (A2, T2) with A1 # A2 and T1 # T2 finds its lock
\* free: it can take it, and it cannot time out.
C7_IndependentLockKeys ==
    \A p, q \in LinkProcs :
        /\ pc[p] \in {"commit", "liked"}
        /\ pc[q] = "lock"
        /\ cur[p].user_id # cur[q].user_id
        /\ cur[p].thing_fullname # cur[q].thing_fullname
        => /\ LockAvailable(q)
           /\ ~LockHeld(LockKey(cur[q].user_id, cur[q].thing_fullname))

\* two link consumers hold the locks of two pairs with different actors and
\* different targets at the same time
C7_Witness ==
    \E p, q \in LinkProcs :
        /\ pc[p] = "commit"
        /\ pc[q] = "commit"
        /\ cur[p].user_id # cur[q].user_id
        /\ cur[p].thing_fullname # cur[q].thing_fullname
        /\ Cardinality(locks) = 2

-----------------------------------------------------------------------------
(* Properties of the derived-listing consumers, checked under SpecListing *)

\* the keys of the listings of a dimension that a link belongs to
KeysOf(dim, name) ==
    CASE dim = "submitted" -> {AccountKey(LinkByFullname(name).author_id)}
      [] dim = "links" -> {SubredditKey(LinkByFullname(name).sr_id)}
      [] OTHER -> DomainPermutations(LinkByFullname(name).url)

\* C8: once a listing consumer has processed messages of a link, however
\* many and in however many batches, every listing of its dimension the link
\* belongs to holds the link exactly once, for every sort; and no listing
\* holds any link twice.
C8_ListedExactlyOnce ==
    /\ \A dim \in Dimensions, l \in LinkNames :
          handled[dim][l] > 0 =>
              \A key \in KeysOf(dim, l), s \in SortSet :
                  Count(l, Listed(listing, [dim |-> dim, key |-> key, sort |-> s])) = 1
    /\ \A k \in DOMAIN listing, l \in LinkNames : Count(l, listing[k]) <= 1

\* the domain consumer has processed three messages of one link, in two
\* batches or more, and each listing of the link's domains holds it once
C8_Witness ==
    \E l \in LinkNames :
        /\ handled["domain"][l] >= 3
        /\ \E n \in DOMAIN fanQ \cap DomainQueueNames : Len(fanQ[n]) = 0
        /\ Cardinality(KeysOf("domain", l)) = 2
        /\ \A key \in KeysOf("domain", l) :
              Count(l, Listed(listing, [dim |-> "domain", key |-> key, sort |-> "hot"])) = 1

-----------------------------------------------------------------------------
(* Properties of cast_vote, checked under SpecSubmit *)

\* the message of request i is on the vote queue of its target
OnVoteQueue(i) ==
    /\ req[i].msg # NoMsg
    /\ req[i].msg \in voteQ[VoteQueueName(req[i].thing)]

\* C9: in every state where the message of a cast_vote call is on the vote
\* queue, or the call has returned, the gencache write of the intent of that
\* call has already been made (and LastModified touched); when the write
\* succeeded the prequeued vote key of (actor, target) holds a direction.
C9_IntentBeforeEnqueue ==
    \A i \in DOMAIN req :
        (OnVoteQueue(i) \/ req[i].pc = "returned") =>
            /\ req[i].intent # "pending"
            /\ req[i].touch # "pending"
            /\ req[i].intent = "written" =>
                  gencache[<<req[i].user, req[i].thing>>] # NoEntry

\* a call whose message is on the queue after its intent was written
C9_Witness ==
    \E i \in DOMAIN req :
        /\ OnVoteQueue(i)
        /\ req[i].intent = "written"
        /\ gencache[<<req[i].user, req[i].thing>>] =
              SerializeDirection(req[i].direction)
        /\ <<AccountFullname(req[i].user), LastModifiedName(req[i].thing)>>
              \in lastModified

\* C10: a cast_vote call whose enqueue failed has ended by raising, and a
\* call that returned normally has its message on the vote queue.
C10_EnqueueFailurePropagates ==
    \A i \in DOMAIN req :
        /\ req[i].error = "enqueue" => req[i].pc = "raised" /\ ~OnVoteQueue(i)
        /\ req[i].pc = "returned" => OnVoteQueue(i)

\* one call failed to enqueue and raised, another returned after enqueueing
C10_Witness ==
    /\ \E i \in DOMAIN req :
          req[i].error = "enqueue" /\ req[i].pc = "raised" /\ ~OnVoteQueue(i)
    /\ \E i \in DOMAIN req : req[i].pc = "returned" /\ OnVoteQueue(i)

\* C11: a cast_vote call in which the cache write of the intent, or the touch
\* of LastModified, failed has not ended by raising: the only error cast_vote
\* ever raises is the failure to enqueue.
C11_LookupFailureNotPropagated ==
    \A i \in DOMAIN req :
        /\ req[i].pc = "raised" => req[i].error = "enqueue"
        /\ (req[i].intent = "failed" \/ req[i].touch = "failed") =>
              req[i].error \in {"none", "enqueue"}

-----------------------------------------------------------------------------
(* Properties of the lock timeout, checked under SpecRetry *)

\* consumer p leaves the acquisition of a lock that another consumer holds
TimeoutStep(p) ==
    /\ pc[p] = "lock"
    /\ LockHeld(LockKey(cur[p].user_id, cur[p].thing_fullname))
    /\ pc'[p] # "lock"

\* the processing of message m ended after the lock timed out
TimedOut(m) == \E p \in LinkProcs : pc[p] = "raised" /\ cur[p] = m

\* a consumer has just committed the Vote of message m
JustCommitted(m) ==
    \E p \in LinkProcs :
        /\ pc[p] = "liked"
        /\ cur[p] = m
        /\ votes[<<m.user_id, m.thing_fullname>>] = m.direction

\* C12: the step in which the lock times out raises, commits no Vote, changes
\* no liked/disliked listing and no fan-out queue; the message then goes back
\* to the vote queue unacknowledged; and with consumers that keep running the
\* Vote of a message that timed out is eventually committed.
C12_TimeoutRetried ==
    /\ [][\A p \in LinkProcs : TimeoutStep(p) =>
            /\ pc'[p] = "raised"
            /\ UNCHANGED <<votes, liked, disliked, fanQ, listing, acked>>]_vars
    /\ [][\A p \in LinkProcs : (pc[p] = "raised" /\ pc'[p] = "idle") =>
            /\ cur[p] \in voteQ'["vote_link_q"]
            /\ acked' = acked]_vars
    /\ \A m \in RetryInputs : TimedOut(m) ~> JustCommitted(m)

\* a message timed out on the lock that another consumer holds between its
\* commit and its listing update, and has not been committed before
C12_Witness ==
    \E p, q \in LinkProcs :
        /\ pc[p] = "raised"
        /\ cur[p] \notin acked
        /\ pc[q] = "liked"
        /\ PairOf(p) = PairOf(q)
        /\ votes[PairOf(p)] # cur[p].direction

-----------------------------------------------------------------------------
(* Properties of the listing consumers when an update fails, checked under
   SpecListingFaults *)

\* C13: when the update of one group of a batch failed, every other group of
\* the batch has been updated: each of its listings holds the links of the
\* group that are in the batch.
C13_GroupFailureIsolated ==
    batch.failed # {} => batch.keys \ batch.failed \subseteq batch.updated

-----------------------------------------------------------------------------
(* Properties of the vote commit consumers, continued (checked under Spec) *)

\* link vote consumer p is in update_user_liked, the read-modify-write of the
\* liked and disliked listings of the actor of its message
InUpdateUserLiked(p) == pc[p] = "liked"

\* C14: no two link vote consumers are in the update of the liked/disliked
\* listings of one actor at the same time, also when they process votes of
\* that actor on two different targets.
C14_ListingUpdatesSerialized ==
    \A p, q \in LinkProcs :
        (p # q /\ InUpdateUserLiked(p) /\ InUpdateUserLiked(q)) =>
            cur[p].user_id # cur[q].user_id

-----------------------------------------------------------------------------
(* Properties of the sharding of the fan-out queues, checked under Spec *)

\* the fan-out queues of a dimension
QueuesOf(dim) ==
    CASE dim = "submitted" -> AuthorQueueNames
      [] dim = "links" -> SubredditQueueNames
      [] OTHER -> DomainQueueNames

\* the queues of a dimension on which a link is waiting
QueuesHolding(dim, name) ==
    {q \in DOMAIN fanQ \cap QueuesOf(dim) : InSeq(name, fanQ[q])}

\* C15: with sharding enabled, two links whose processing updates a common
\* listing of a dimension (same author, same subreddit, or a common domain
\* among the permutations of their domains) wait on the same shard queue of
\* that dimension.
C15_ShardKeyIsListingKey ==
    (shardCfg.author /\ shardCfg.subreddit /\ shardCfg.domain) =>
        \A dim \in Dimensions, a, b \in LinkNames :
            KeysOf(dim, a) \cap KeysOf(dim, b) # {} =>
                \A qa \in QueuesHolding(dim, a), qb \in QueuesHolding(dim, b) :
                    qa = qb

\* consumer p runs the try block that constructs the Vote, for a message
\* with every key and a target whose type the Vote constructor rejects
ConstructionFails(p) ==
    /\ \/ /\ p \in LinkProcs
          /\ pc[p] = "lock"
          /\ ~LockHeld(LockKey(cur[p].user_id, cur[p].thing_fullname))
       \/ p \in CommentProcs /\ pc[p] = "construct"
    /\ RequiredKeys \subseteq cur[p].keys
    /\ ~cur[p].type_ok
    /\ pc'[p] # pc[p]

\* C16: when the construction of the Vote fails with TypeError, in the link
\* and in the comment consumer, process_message returns without raising, no
\* Vote is committed, no liked/disliked or other listing changes, nothing is
\* enqueued, no lock stays held; the message is then acknowledged and does
\* not go back to the vote queue.
C16_IncompatibleTypeAbandoned ==
    /\ [][\A p \in Procs : ConstructionFails(p) =>
            /\ pc'[p] = "returned"
            /\ result'[p].outcome = "abandoned"
            /\ UNCHANGED <<votes, liked, disliked, fanQ, commentsQ, listing, locks>>]_vars
    /\ [][\A p \in Procs :
            (pc[p] = "returned" /\ result[p].outcome = "abandoned" /\ pc'[p] # pc[p]) =>
                /\ pc'[p] = "idle"
                /\ cur[p] \in acked'
                /\ cur[p] \notin voteQ'[QueueOf(p)]]_vars

\* a link consumer and the comment consumer have both abandoned a message
\* and no Vote of either pair exists
C16_Witness ==
    \E p \in LinkProcs, q \in CommentProcs :
        /\ pc[p] = "returned" /\ result[p].outcome = "abandoned"
        /\ pc[q] = "returned" /\ result[q].outcome = "abandoned"
        /\ votes[PairOf(p)] = "absent"
        /\ votes[PairOf(q)] = "absent"

\* the locks link vote consumer p holds
LocksOf(p) == {l \in locks : l.owner = p}

\* C17: whenever a link vote consumer has finished processing a message
\* (process_message returned after completion or abandonment, or raised, also
\* from vote.commit() or update_user_liked), it holds no lock.
C17_NoLockAfterProcessing ==
    \A p \in LinkProcs :
        pc[p] \in {"idle", "returned", "raised"} => LocksOf(p) = {}

\* one consumer has ended on an error raised after the commit, inside the
\* lock, the other has ended normally or by abandonment, and no lock is held
C17_Witness ==
    \E p, q \in LinkProcs :
        /\ pc[p] = "raised"
        /\ votes[PairOf(p)] # "absent"
        /\ pc[q] = "returned"
        /\ result[q].outcome \in {"abandoned", "completed"}
        /\ locks = {}

\* the step enqueues a link onto an author, subreddit or domain queue
FanOutEnqueue == Enqueued(fanQ, fanQ') # {}

\* C18: every enqueue onto a fan-out queue is made by a link vote consumer
\* that is past the with block and holds no lock, with the Vote of its
\* message stored; a consumer gets past the with block only through
\* update_user_liked, and to update_user_liked only through vote.commit().
C18_FanOutAfterCommitOutsideLock ==
    /\ [][FanOutEnqueue =>
            \E p \in LinkProcs :
                /\ pc[p] = "fanout" /\ pc'[p] = "returned"
                /\ LocksOf(p) = {}
                /\ votes[PairOf(p)] # "absent"]_vars
    /\ [][\A p \in LinkProcs :
            (pc'[p] = "fanout" /\ pc[p] # "fanout") =>
                /\ pc[p] = "liked"
                /\ liked' = LikedAfterUpdate(vote[p])
                /\ disliked' = DislikedAfterUpdate(vote[p])]_vars
    /\ [][\A p \in LinkProcs :
            (pc'[p] = "liked" /\ pc[p] # "liked") =>
                /\ pc[p] = "commit"
                /\ LocksOf(p) # {}
                /\ votes' = VoteCommit(vote[p])]_vars

\* a link vote consumer has enqueued its link onto the three fan-out queues,
\* holds no lock, and the Vote it committed is stored
C18_Witness ==
    \E p \in LinkProcs :
        /\ pc[p] = "returned"
        /\ Cardinality(result[p].enq) = 3
        /\ LocksOf(p) = {}
        /\ votes[PairOf(p)] # "absent"
        /\ \E n \in result[p].enq : Count(cur[p].thing_fullname, Items(fanQ, n)) > 0

\* consumer p is past vote.commit() and decides on the comment of its message
Deciding(p) == pc[p] = "post" /\ pc'[p] # "post"

\* vote_valid and comment_valid for the vote consumer p committed
CommentVoteValid(p) ==
    LET comment == CommentByFullname(cur[p].thing_fullname)
    IN  /\ IsAutomaticInitialVote(vote[p]) \/ AffectsScore(vote[p])
        /\ ~(comment.spam \/ comment.deleted)

\* comment.num_votes as consumer p reads it
NumVotesOf(p) == NumVotes(cur[p].thing_fullname, votes)

\* the step puts a comment onto the comments-tree queue
CommentsTreeEnqueue == Len(commentsQ') > Len(commentsQ)

\* C19 as stated: for an eligible committed comment vote the comment is
\* enqueued onto the comments-tree queue if its vote count is below the
\* threshold or a multiple of the period, and in no other case.
C19_UpdateBelowThreshold ==
    [][\A p \in CommentProcs : Deciding(p) =>
          (CommentsTreeEnqueue <=>
              /\ CommentVoteValid(p)
              /\ \/ NumVotesOf(p) < liveConfig.threshold
                 \/ NumVotesOf(p) % liveConfig.period = 0)]_vars

\* C19 amended: for an eligible committed comment vote the comment is
\* enqueued onto the comments-tree queue if its vote count is at or below
\* the threshold or a multiple of the period, and in no other case; a vote
\* count equal to the threshold triggers the enqueue.
C19_UpdateUpToThreshold ==
    [][\A p \in CommentProcs : Deciding(p) =>
          (CommentsTreeEnqueue <=>
              /\ CommentVoteValid(p)
              /\ \/ NumVotesOf(p) <= liveConfig.threshold
                 \/ NumVotesOf(p) % liveConfig.period = 0)]_vars

\* the comment was enqueued for a vote that left its vote count equal to the
\* threshold and no multiple of the period
C19_Witness ==
    \E p \in CommentProcs :
        /\ pc[p] = "returned"
        /\ result[p].outcome = "completed"
        /\ NumVotesOf(p) = liveConfig.threshold
        /\ NumVotesOf(p) % liveConfig.period # 0
        /\ commentsQ # <<>>
        /\ commentsQ[Len(commentsQ)] = cur[p].thing_fullname

\* C20: every process_message of a vote consumer that ends without raising
\* has flushed the timer of its message: also when the validation hook
\* drops the message and when the Vote construction fails with TypeError.
C20_TimerFlushedOnReturn ==
    \A p \in Procs : pc[p] = "returned" => result[p].timer = "flushed"

====
